---- MODULE Spec2Model ----
(***************************************************************************)
(* Model of the three programs of the repository:                          *)
(*   export_from_snowflake.py  query -> CSV / CSV.GZ     (prog = "csv")     *)
(*   export_to_parquet.py      query -> Parquet          (prog = "parquet") *)
(*   push_to_github.py         file  -> contents API     (SpecCommit)       *)
(*                             file  -> release asset    (SpecRelease)      *)
(* Each program is a sequential process; pc is its position in main().     *)
(***************************************************************************)
EXTENDS Integers, Sequences, FiniteSets, TLC

\* ------------------------------------------------------------------ bounds
MaxRows == 3
MaxChunk == 3
MaxRuns == 2
MaxOthers == 1

\* ------------------------------------------------------------- row values
\* A cell of a fetched row is a Python object: an int, a str or None.
\* v is the text str() gives for it (what csv.writer writes).
I1 == [ty |-> "int", v |-> "1"]
I2 == [ty |-> "int", v |-> "2"]
Sa == [ty |-> "str", v |-> "a"]
Sb == [ty |-> "str", v |-> "b"]
None == [ty |-> "null", v |-> ""]

\* cursor.description entries are tuples whose first member is the name.
Descriptions ==
  { << <<"id", "FIXED">>, <<"name", "TEXT">> >>,
    << <<"name", "FIXED">>, <<"id", "TEXT">> >> }

\* Rows the warehouse may return: column 1 numeric and nullable, column 2
\* text and nullable.  Every row has the arity of the description.
RowSet == { <<I1, Sa>>, <<I2, Sb>>, <<None, Sa>>, <<I1, None>> }

SeqsUpTo(S, n) == UNION { [1..k -> S] : k \in 0..n }

Min(a, b) == IF a < b THEN a ELSE b

RECURSIVE Flatten(_)
Flatten(ss) == IF ss = <<>> THEN <<>> ELSE Head(ss) \o Flatten(Tail(ss))

RECURSIVE SumLen(_)
SumLen(ss) == IF ss = <<>> THEN 0 ELSE Len(Head(ss)) + SumLen(Tail(ss))

VARIABLES
  \* ---- the exporters (export_from_snowflake.py, export_to_parquet.py)
  prog,        \* which program runs: "csv" | "parquet" | "push"
  src,         \* the result set held by the warehouse, in warehouse order
  description, \* cursor.description of the executed query
  chunk_size,  \* CHUNK_SIZE
  pos,         \* rows the cursor has handed out so far
  cols,        \* cols, the column names read from cur.description
  rows,        \* rows, the batch of the current loop iteration
  total,       \* total
  writer,      \* parquet: writer (None, or the schema it was opened with)
  out,         \* the output file at OUTPUT_PATH
  batches,     \* the batches handed to the sink, in append order
  cur_open,    \* cur is an open cursor
  conn_open,   \* conn is an open connection
  exc,         \* the exception propagating out of the try block, or "none"
  printed,     \* the status line printed: "none" | "ok" | "empty"
  \* ---- the publisher (push_to_github.py)
  mode,        \* GITHUB_UPLOAD_MODE
  local,       \* the local file: [size, content]
  run,         \* number of the current invocation of the program
  exits,       \* exit codes of the earlier invocations, oldest first
  requests,    \* remote requests issued by this invocation, in order
  faulted,     \* the remote answered a request of this invocation with a
               \* failure of its own (rate limit, outage)
  tree,        \* remote: the files at (repo, branch, dest_path)
  next_sha,    \* remote: the next fresh revision marker
  others,      \* writes other writers made to (repo, branch, dest_path)
               \* since this invocation started
  get_status,  \* get.status_code
  sha,         \* sha (0 is None)
  probed,      \* the remote file as it was when the probe was answered
  payload,     \* payload of the PUT
  put_status,  \* put.status_code
  releases,    \* remote: the releases of the repository
  assets,      \* remote: the attachments of all releases
  next_id,     \* remote: the next fresh object id
  has_repo,    \* remote: release objects carry a "repository" member
  tag,         \* GITHUB_RELEASE_TAG
  asset_name,  \* GITHUB_ASSET_NAME
  rel,         \* rel, the release main() resolved (<<>> before)
  listing,     \* assets.json() when the listing answered 200, else <<>>
  found,       \* the listed attachment whose name is asset_name (<<>> if none)
  lookup_status, \* get.status_code of the release lookup
  \* ---- every program
  pc,          \* position in main()
  exit_code,   \* process exit status, -1 while running
  cause        \* the condition that ended the process, "none" while running

xvars == << prog, src, description, chunk_size, pos, cols, rows, total, writer,
            out, batches, cur_open, conn_open, exc, printed >>

cvars == << tree, next_sha, others, get_status, sha, probed, payload, put_status >>

rvars == << releases, assets, next_id, has_repo, tag, asset_name, rel, listing,
            found, lookup_status >>

pvars == << mode, local, run, exits, requests, faulted >>

vars == << xvars, pvars, cvars, rvars, pc, exit_code, cause >>

\* The output file: absent, open (being written) or closed (finalized); data is
\* its records in file order (CSV: header and row records; Parquet: rows).
NoFile == [state |-> "absent", schema |-> <<>>, data |-> <<>>]

\* ---------------------------------------------------------------- helpers
\* (mutant) the loop fetching twice per iteration: every other batch is lost.
fetchmany_skipping(n) ==
  SubSeq(src, pos + n + 1, Min(pos + n + n, Len(src)))

\* cur.fetchmany(n): the next at most n rows after the cursor position.
fetchmany(n) == SubSeq(src, pos + 1, Min(pos + n, Len(src)))

\* cols = [c[0] for c in cur.description]
ColumnNames(d) == [i \in 1..Len(d) |-> d[i][1]]

\* csv.writer: one record per row, each cell written as str(cell), None as "".
CsvRecord(row) ==
  [kind |-> "row", fields |-> [j \in 1..Len(row) |-> row[j].v]]

\* (mutant) the header written from nothing.
HeaderRecords_none(names) == <<>>

\* w.writerow(cols)
HeaderRecords(names) == << [kind |-> "header", fields |-> names] >>

CsvRecords(rs) == [i \in 1..Len(rs) |-> CsvRecord(rs[i])]

\* pandas' type of one column of a batch (DataFrame.from_records) followed by
\* pyarrow's (Table.from_pandas): ints stay int64 unless a None shares the
\* column, which makes the column float64; a column of None only is arrow null.
ColumnType(rs, j) ==
  LET tys == { rs[i][j].ty : i \in 1..Len(rs) } \ {"null"}
      hasNull == \E i \in 1..Len(rs) : rs[i][j].ty = "null"
  IN  IF tys = {} THEN "null"
      ELSE IF tys = {"int"} THEN (IF hasNull THEN "double" ELSE "int64")
      ELSE IF tys = {"str"} THEN "string"
      ELSE "error"

\* The value a cell has in a column of arrow type t.
ConvertCell(x, t) ==
  IF x.ty = "null" THEN None
  ELSE IF t = "double" THEN [ty |-> "float", v |-> x.v \o ".0"]
  ELSE x

\* df = pd.DataFrame.from_records(rows, columns=cols)
\* table = pa.Table.from_pandas(df, preserve_index=False)
TableFromRows(rs, names) ==
  LET types == [j \in 1..Len(names) |-> ColumnType(rs, j)]
  IN  [ ok     |-> \A j \in 1..Len(names) : types[j] # "error",
        schema |-> [j \in 1..Len(names) |-> <<names[j], types[j]>>],
        data   |-> [i \in 1..Len(rs) |->
                      [j \in 1..Len(names) |-> ConvertCell(rs[i][j], types[j])]] ]

\* pa.Table.from_arrays(arrs, names=..., schema=...).  An optional argument is
\* <<>> when not passed and <<x>> when passed.  pyarrow refuses a call that
\* passes both names and schema (ValueError: Cannot pass both schema and names).
Table_from_arrays(arrs, names, schema) ==
  IF names # <<>> /\ schema # <<>>
  THEN [ok |-> FALSE, schema |-> <<>>, data |-> <<>>]
  ELSE IF schema # <<>>
  THEN [ok |-> Len(schema[1]) = Len(arrs), schema |-> schema[1], data |-> <<>>]
  ELSE [ok |-> names # <<>> /\ Len(names[1]) = Len(arrs),
        schema |-> [j \in 1..Len(arrs) |-> <<names[1][j], arrs[j]>>],
        data |-> <<>>]

NoWriter == [is_none |-> TRUE, schema |-> <<>>]

\* (mutant) total = n instead of total += n.
AddToTotal_overwrite(n) == n

\* total += n
AddToTotal(n) == total + n

\* ------------------------------------------------- state before any program
ExportIdle ==
  /\ src = <<>> /\ description = <<>> /\ chunk_size = 1 /\ pos = 0
  /\ cols = <<>> /\ rows = <<>> /\ total = 0 /\ writer = NoWriter
  /\ out = NoFile /\ batches = <<>> /\ cur_open = FALSE /\ conn_open = FALSE
  /\ exc = "none" /\ printed = "none"

CommitIdle ==
  /\ tree = {} /\ next_sha = 1 /\ others = 0 /\ get_status = 0 /\ sha = 0
  /\ probed = {} /\ payload = <<>> /\ put_status = 0

ReleaseIdle ==
  /\ releases = {} /\ assets = {} /\ next_id = 1 /\ has_repo = FALSE
  /\ tag = "" /\ asset_name = "" /\ rel = <<>> /\ listing = <<>> /\ found = <<>>
  /\ lookup_status = 0

PushIdle ==
  /\ mode = "" /\ local = [size |-> 0, content |-> ""] /\ run = 0
  /\ exits = <<>> /\ requests = <<>> /\ faulted = FALSE

\* ============================================================== exporters
\* State at the entry of main(): nothing fetched, nothing written.
InitExport ==
  /\ prog \in {"csv", "parquet"}
  /\ src \in SeqsUpTo(RowSet, MaxRows)
  /\ description \in Descriptions
  /\ chunk_size \in 1..MaxChunk
  /\ pos = 0 /\ cols = <<>> /\ rows = <<>> /\ total = 0 /\ writer = NoWriter
  /\ out = NoFile /\ batches = <<>> /\ cur_open = FALSE /\ conn_open = FALSE
  /\ exc = "none" /\ printed = "none"
  /\ PushIdle /\ CommitIdle /\ ReleaseIdle
  /\ pc = "preflight" /\ exit_code = -1 /\ cause = "none"

\* What the settings and the connect call can be at start-up.
ConfigCases == {"ok", "missing_env", "sql_missing", "sql_empty", "connect_error"}

\* The exit status of the exporters for the condition that ends them:
\* sys.exit(1) for a missing setting, a missing or an empty SQL file; 1 for an
\* exception that leaves main() (the interpreter's status); 0 for a return.
ExportExitCode(why) ==
  CASE why = "ok" -> 0
    [] why = "missing_env" -> 1
    [] why = "sql_missing" -> 1
    [] why = "sql_empty" -> 1
    [] why \in {"connect_error", "exception"} -> 1

\* (mutant) a refused PUT, create or upload (codes 3, 4, 5) is tried again
\* instead of ending the process.
Exit_retry(n, why) ==
  IF n \in {3, 4, 5}
  THEN pc' = pc /\ exit_code' = exit_code /\ cause' = cause
  ELSE pc' = "exited" /\ exit_code' = n /\ cause' = why

\* sys.exit(n), an exception that leaves main(), or its return: the process
\* ends with status n because of the condition why.
Exit(n, why) == pc' = "exited" /\ exit_code' = n /\ cause' = why

\* ------------------------------------------------ export_from_snowflake.py
CsvPreflight ==
  /\ prog = "csv" /\ pc = "preflight"
  /\ \E c \in ConfigCases :
       IF c = "ok"
       THEN conn_open' = TRUE /\ pc' = "execute" /\ UNCHANGED << exit_code, cause >>
       ELSE Exit(ExportExitCode(c), c) /\ UNCHANGED conn_open
  /\ UNCHANGED << prog, src, description, chunk_size, pos, cols, rows, total,
                  writer, out, batches, cur_open, exc, printed >>
  /\ UNCHANGED << pvars, cvars, rvars >>

CsvExecute ==
  /\ prog = "csv" /\ pc = "execute"
  /\ cur_open' = TRUE
  /\ \/ /\ cols' = ColumnNames(description)
        /\ pc' = "open_sink" /\ UNCHANGED exc
     \/ /\ exc' = "ProgrammingError"
        /\ pc' = "finally" /\ UNCHANGED cols
  /\ UNCHANGED << prog, src, description, chunk_size, pos, rows, total, writer,
                  out, batches, conn_open, printed, exit_code, cause >>
  /\ UNCHANGED << pvars, cvars, rvars >>

\* with open_writer(output) as f: w = csv.writer(f); w.writerow(cols)
CsvOpenSink ==
  /\ prog = "csv" /\ pc = "open_sink"
  /\ \/ /\ out' = [state |-> "open", schema |-> <<>>,
                   data |-> HeaderRecords(cols)]
        /\ pc' = "fetch" /\ UNCHANGED exc
     \/ /\ exc' = "OSError"
        /\ pc' = "finally" /\ UNCHANGED out
  /\ UNCHANGED << prog, src, description, chunk_size, pos, cols, rows, total,
                  writer, batches, cur_open, conn_open, printed, exit_code, cause >>
  /\ UNCHANGED << pvars, cvars, rvars >>

\* rows = cur.fetchmany(chunk_size); if not rows: break
\* An exception leaves the with block, which closes f.
CsvFetch ==
  /\ prog = "csv" /\ pc = "fetch"
  /\ \/ /\ rows' = fetchmany(chunk_size)
        /\ pos' = pos + Len(rows')
        /\ pc' = IF rows' = <<>> THEN "finalize" ELSE "write"
        /\ UNCHANGED << out, exc >>
     \/ /\ exc' = "DatabaseError"
        /\ out' = [out EXCEPT !.state = "closed"]
        /\ pc' = "finally" /\ UNCHANGED << rows, pos >>
  /\ UNCHANGED << prog, src, description, chunk_size, cols, total, writer,
                  batches, cur_open, conn_open, printed, exit_code, cause >>
  /\ UNCHANGED << pvars, cvars, rvars >>

\* w.writerows(rows); total += len(rows)
CsvWrite ==
  /\ prog = "csv" /\ pc = "write"
  /\ \/ /\ out' = [out EXCEPT !.data = out.data \o CsvRecords(rows)]
        /\ batches' = Append(batches, rows)
        /\ total' = AddToTotal(Len(rows))
        /\ pc' = "fetch" /\ UNCHANGED exc
     \/ /\ exc' = "OSError"
        /\ out' = [out EXCEPT !.state = "closed"]
        /\ pc' = "finally" /\ UNCHANGED << batches, total >>
  /\ UNCHANGED << prog, src, description, chunk_size, pos, cols, rows, writer,
                  cur_open, conn_open, printed, exit_code, cause >>
  /\ UNCHANGED << pvars, cvars, rvars >>

\* the with block ends after the break: f is flushed and closed
CsvFinalize ==
  /\ prog = "csv" /\ pc = "finalize"
  /\ out' = [out EXCEPT !.state = "closed"]
  /\ pc' = "report"
  /\ UNCHANGED << prog, src, description, chunk_size, pos, cols, rows, total,
                  writer, batches, cur_open, conn_open, exc, printed, exit_code, cause >>
  /\ UNCHANGED << pvars, cvars, rvars >>

CsvReport ==
  /\ prog = "csv" /\ pc = "report"
  /\ printed' = "ok"
  /\ pc' = "finally"
  /\ UNCHANGED << prog, src, description, chunk_size, pos, cols, rows, total,
                  writer, out, batches, cur_open, conn_open, exc, exit_code, cause >>
  /\ UNCHANGED << pvars, cvars, rvars >>

\* finally: cur.close(); conn.close(); then main() returns or the exception
\* leaves it.
CsvFinally ==
  /\ prog = "csv" /\ pc = "finally"
  /\ cur_open' = FALSE /\ conn_open' = FALSE
  /\ IF exc = "none" THEN Exit(ExportExitCode("ok"), "ok")
     ELSE Exit(ExportExitCode("exception"), "exception")
  /\ UNCHANGED << prog, src, description, chunk_size, pos, cols, rows, total,
                  writer, out, batches, exc, printed >>
  /\ UNCHANGED << pvars, cvars, rvars >>

\* --------------------------------------------------- export_to_parquet.py
PqPreflight ==
  /\ prog = "parquet" /\ pc = "preflight"
  /\ \E c \in ConfigCases :
       IF c = "ok"
       THEN conn_open' = TRUE /\ pc' = "execute" /\ UNCHANGED << exit_code, cause >>
       ELSE Exit(ExportExitCode(c), c) /\ UNCHANGED conn_open
  /\ UNCHANGED << prog, src, description, chunk_size, pos, cols, rows, total,
                  writer, out, batches, cur_open, exc, printed >>
  /\ UNCHANGED << pvars, cvars, rvars >>

PqExecute ==
  /\ prog = "parquet" /\ pc = "execute"
  /\ cur_open' = TRUE
  /\ \/ /\ cols' = ColumnNames(description)
        /\ pc' = "fetch" /\ UNCHANGED exc
     \/ /\ exc' = "ProgrammingError"
        /\ pc' = "finally" /\ UNCHANGED cols
  /\ UNCHANGED << prog, src, description, chunk_size, pos, rows, total, writer,
                  out, batches, conn_open, printed, exit_code, cause >>
  /\ UNCHANGED << pvars, cvars, rvars >>

\* rows = cur.fetchmany(chunk_size); if not rows: break
PqFetch ==
  /\ prog = "parquet" /\ pc = "fetch"
  /\ \/ /\ rows' = fetchmany(chunk_size)
        /\ pos' = pos + Len(rows')
        /\ pc' = IF rows' = <<>> THEN "finalize" ELSE "write"
        /\ UNCHANGED exc
     \/ /\ exc' = "DatabaseError"
        /\ pc' = "finally" /\ UNCHANGED << rows, pos >>
  /\ UNCHANGED << prog, src, description, chunk_size, cols, total, writer, out,
                  batches, cur_open, conn_open, printed, exit_code, cause >>
  /\ UNCHANGED << pvars, cvars, rvars >>

\* The file and the writer after `if writer is None: writer = ParquetWriter(
\* output, table.schema)`: the writer is opened once, on the first batch.
OpenedWriter(table) ==
  IF writer.is_none THEN [is_none |-> FALSE, schema |-> table.schema]
  ELSE writer

OpenedFile(table) ==
  IF writer.is_none
  THEN [state |-> "open", schema |-> table.schema, data |-> <<>>]
  ELSE out

\* (mutant) write_table accepts a table of any schema.
SchemaMatches_any(table, w) == TRUE

\* ParquetWriter.write_table: the table's schema must equal the schema the
\* writer was opened with, else it raises ValueError.
SchemaMatches(table, w) == table.schema = w.schema

\* df = ...; table = ...; open the writer lazily; writer.write_table(table);
\* total += len(df).  write_table raises ValueError when the table's schema
\* is not the one the writer was opened with.
PqWrite ==
  /\ prog = "parquet" /\ pc = "write"
  /\ LET table == TableFromRows(rows, cols)
         w == OpenedWriter(table)
         f == OpenedFile(table)
     IN  IF ~table.ok
         THEN /\ exc' = "ArrowInvalid" /\ pc' = "finally"
              /\ UNCHANGED << writer, out, batches, total >>
         ELSE /\ writer' = w
              /\ \/ /\ SchemaMatches(table, w)
                    /\ out' = [f EXCEPT !.data = f.data \o table.data]
                    /\ batches' = Append(batches, rows)
                    /\ total' = AddToTotal(Len(table.data))
                    /\ pc' = "fetch" /\ UNCHANGED exc
                 \/ /\ ~SchemaMatches(table, w)
                    /\ exc' = "ValueError" /\ out' = f
                    /\ pc' = "finally" /\ UNCHANGED << batches, total >>
                 \/ /\ exc' = "OSError" /\ out' = f
                    /\ pc' = "finally" /\ UNCHANGED << batches, total >>
  /\ UNCHANGED << prog, src, description, chunk_size, pos, cols, rows,
                  cur_open, conn_open, printed, exit_code, cause >>
  /\ UNCHANGED << pvars, cvars, rvars >>

\* (mutant) the writer is not closed after the loop.
ClosedFile_noop == out

\* The file after `if writer is not None: writer.close()`.
ClosedFile == IF writer.is_none THEN out ELSE [out EXCEPT !.state = "closed"]

\* arrs = [pa.array([], type=pa.null()) for _ in cols]
\* schema = pa.schema([(c, pa.null()) for c in cols])
\* empty = pa.Table.from_arrays(arrs, names=cols, schema=schema)
EmptyTable ==
  Table_from_arrays([j \in 1..Len(cols) |-> "null"],
                    << cols >>,
                    << [j \in 1..Len(cols) |-> <<cols[j], "null">>] >>)

\* if writer is not None: writer.close()
\* if total == 0: build the empty table and pq.write_table(empty, output)
PqFinalize ==
  /\ prog = "parquet" /\ pc = "finalize"
  /\ IF total = 0
     THEN IF EmptyTable.ok
          THEN /\ out' = [state |-> "closed", schema |-> EmptyTable.schema,
                          data |-> EmptyTable.data]
               /\ pc' = "report" /\ UNCHANGED exc
          ELSE /\ out' = ClosedFile
               /\ exc' = "ValueError" /\ pc' = "finally"
     ELSE /\ out' = ClosedFile
          /\ pc' = "report" /\ UNCHANGED exc
  /\ UNCHANGED << prog, src, description, chunk_size, pos, cols, rows, total,
                  writer, batches, cur_open, conn_open, printed, exit_code, cause >>
  /\ UNCHANGED << pvars, cvars, rvars >>

\* print("... 0 rows ...") if total == 0 else print("Wrote ...")
PqReport ==
  /\ prog = "parquet" /\ pc = "report"
  /\ printed' = IF total = 0 THEN "empty" ELSE "ok"
  /\ pc' = "finally"
  /\ UNCHANGED << prog, src, description, chunk_size, pos, cols, rows, total,
                  writer, out, batches, cur_open, conn_open, exc, exit_code, cause >>
  /\ UNCHANGED << pvars, cvars, rvars >>

\* finally: cur.close(); conn.close().  The finally block does not close the
\* writer: a writer still open when an exception leaves main() is closed by
\* its finalizer at interpreter shutdown, or not at all.
PqFinally ==
  /\ prog = "parquet" /\ pc = "finally"
  /\ cur_open' = FALSE /\ conn_open' = FALSE
  /\ IF exc = "none" THEN Exit(ExportExitCode("ok"), "ok")
     ELSE Exit(ExportExitCode("exception"), "exception")
  /\ \/ UNCHANGED out
     \/ out.state = "open" /\ out' = [out EXCEPT !.state = "closed"]
  /\ UNCHANGED << prog, src, description, chunk_size, pos, cols, rows, total,
                  writer, batches, exc, printed >>
  /\ UNCHANGED << pvars, cvars, rvars >>

NextExport ==
  \/ CsvPreflight \/ CsvExecute \/ CsvOpenSink \/ CsvFetch \/ CsvWrite
  \/ CsvFinalize \/ CsvReport \/ CsvFinally
  \/ PqPreflight \/ PqExecute \/ PqFetch \/ PqWrite \/ PqFinalize \/ PqReport
  \/ PqFinally

SpecExport == InitExport /\ [][NextExport]_vars

\* ------------------------------------------------------ exporter properties
\* The export loop was left through `break`.
LoopExited == pc \in {"finalize", "report"} \/ printed # "none"

\* The data rows of the output file, in file order.
SinkRows ==
  IF prog = "csv" THEN SelectSeq(out.data, LAMBDA r : r.kind = "row")
  ELSE out.data

\* d is the cell the sink holds for the fetched cell x: the same value, or for
\* Parquet the same number as a double.
SameCell(d, x) ==
  \/ d = x
  \/ x.ty = "int" /\ d = [ty |-> "float", v |-> x.v \o ".0"]

\* d is what the running exporter writes for the fetched row r.
SameRow(d, r) ==
  IF prog = "csv" THEN d = CsvRecord(r)
  ELSE Len(d) = Len(r) /\ \A j \in 1..Len(r) : SameCell(d[j], r[j])

\* C1: the rows appended to the sink, in append order, are the source's rows
\* in warehouse order, each exactly once: at every point of the loop they are
\* the source's first rows, the file holds one data row for each of them, and
\* once the loop is left through break they are the whole source.
C1_RowsExactlyOnce ==
  prog \in {"csv", "parquet"} =>
    /\ SumLen(batches) <= Len(src)
    /\ Flatten(batches) = SubSeq(src, 1, SumLen(batches))
    /\ Len(SinkRows) = SumLen(batches)
    /\ \A i \in 1..Len(SinkRows) : SameRow(SinkRows[i], src[i])
    /\ (LoopExited => Flatten(batches) = src)

\* Both exporters finish a three-row source holding a repeated row, in two
\* batches.
C1_Witness ==
  /\ printed = "ok" /\ Len(batches) = 2 /\ Len(src) = 3 /\ src[1] = src[3]
  /\ Len(SinkRows) = 3

\* C2: at every point of the export loop and at completion, total is the sum
\* of the sizes of the batches consumed so far (0 when there was none), and
\* that is the count the success line reports.
C2_TotalIsSumOfBatches ==
  prog \in {"csv", "parquet"} =>
    /\ total = SumLen(batches)
    /\ (batches = <<>> => total = 0)
    /\ (printed = "ok" => total = Len(src))

\* A run that consumed two batches of different sizes and reported.
C2_Witness ==
  /\ printed = "ok" /\ Len(batches) = 2 /\ Len(batches[1]) = 2 /\ total = 3

\* C3: the delimited output holds the header record exactly once, as its
\* first record, with the names of the Descriptor; it is written before any
\* row is fetched; a finished run over zero batches leaves a closed file of
\* one header line and no data line.
C3_HeaderOnce ==
  prog = "csv" =>
    /\ (out.state # "absent" =>
          /\ Len(out.data) >= 1
          /\ out.data[1] = [kind |-> "header",
                            fields |-> ColumnNames(description)]
          /\ \A i \in 2..Len(out.data) : out.data[i].kind = "row")
    /\ (out.state = "absent" => pos = 0 /\ rows = <<>> /\ batches = <<>>)
    /\ (printed = "ok" /\ batches = <<>> =>
          /\ out.state = "closed"
          /\ Len(out.data) = 1
          /\ SinkRows = <<>>)

\* A finished CSV run over an empty result.
C3_Witness ==
  /\ prog = "csv" /\ pc = "exited" /\ exit_code = 0 /\ src = <<>>
  /\ out.state = "closed" /\ Len(out.data) = 1

\* The warehouse or the file system raised during the run.
EnvFailure == exc \in {"ProgrammingError", "DatabaseError", "OSError"}

\* C4: a columnar export whose query returns zero batches, with no failure of
\* the warehouse or the file system, ends with an output file present, closed,
\* whose columns are the Descriptor's names in order, holding zero rows.
C4_EmptyParquetFile ==
  (prog = "parquet" /\ pc = "exited" /\ cols # <<>> /\ src = <<>>
     /\ ~EnvFailure) =>
    /\ exit_code = 0
    /\ out.state = "closed"
    /\ ColumnNames(out.schema) = ColumnNames(description)
    /\ out.data = <<>>

\* ============================================================== publisher
\* push_to_github.py.  The remote repository is the environment: it answers
\* each request from its current state, or with a failure of its own.
SizeLimit == 100 * 1024 * 1024

Sizes == {1, SizeLimit, SizeLimit + 1}

Contents == {"c1", "c2"}

Modes == {"contents", "CONTENTS", "zip"}

\* str.lower() on the modes above
Lower(m) == IF m = "CONTENTS" THEN "contents" ELSE m

\* Failures the remote gives whatever the request: forbidden / rate limited,
\* server error.
FaultStatuses == {403, 500}

\* base64.b64encode(...).decode("utf-8") and the remote's decoding of it
B64(c) == <<"b64", c>>

UnB64(e) == e[2]

\* The record of a finished invocation, kept when the program is run again.
RunRecord ==
  [code |-> exit_code, local |-> local, tag |-> tag, asset_name |-> asset_name,
   nreq |-> Len(requests), faulted |-> faulted, others |-> others]

\* ---- the remote's contents endpoint, for the one (repo, branch, path)
\* GET repos/{repo}/contents/{path}?ref={branch}
RemoteGetContents ==
  IF tree = {} THEN [status |-> 404, sha |-> 0]
  ELSE [status |-> 200, sha |-> (CHOOSE e \in tree : TRUE).sha]

\* PUT repos/{repo}/contents/{path}: creates the file when there is none and
\* the request names no marker; replaces it when the request names the
\* marker of the file as it is now; rejects everything else.
RemotePutContents(pl) ==
  IF tree = {}
  THEN IF "sha" \in DOMAIN pl
       THEN [status |-> 422, tree |-> tree]
       ELSE [status |-> 201,
             tree |-> {[path |-> "dest", content |-> UnB64(pl.content),
                        sha |-> next_sha]}]
  ELSE IF "sha" \notin DOMAIN pl
       THEN [status |-> 422, tree |-> tree]
       ELSE IF pl.sha = (CHOOSE e \in tree : TRUE).sha
            THEN [status |-> 200,
                  tree |-> {[path |-> "dest", content |-> UnB64(pl.content),
                             sha |-> next_sha]}]
            ELSE [status |-> 409, tree |-> tree]

\* ---- the program
\* (mutant) the marker never taken from the probe.
ProbedSha_never(status, body_sha) == 0

\* sha = get.json().get("sha") if get.status_code == 200 else None
ProbedSha(status, body_sha) == IF status = 200 THEN body_sha ELSE 0

\* (mutant) the marker sent whether or not one was found.
BuildPayload_always(s) ==
  [message |-> "data: update dest", content |-> B64(local.content),
   branch |-> "main", sha |-> s]

\* payload = {...}; if sha: payload["sha"] = sha
BuildPayload(s) ==
  IF s # 0
  THEN [message |-> "data: update dest", content |-> B64(local.content),
        branch |-> "main", sha |-> s]
  ELSE [message |-> "data: update dest", content |-> B64(local.content),
        branch |-> "main"]

\* The exit status of the publisher for the condition that ends it: 1 for a
\* missing setting (env) and for an exception, 2 for the size bound, 3 for a
\* refused PUT, 4 for a refused create, 5 for a refused upload, 6 for an
\* unknown mode, 0 for a return.
PushExitCode(why) ==
  CASE why = "ok" -> 0
    [] why \in {"missing_env", "exception"} -> 1
    [] why = "oversize" -> 2
    [] why = "put" -> 3
    [] why = "create" -> 4
    [] why = "upload" -> 5
    [] why = "bad_mode" -> 6

\* (mutant) only server errors treated as failure.
PutSucceeded_lenient(status) == status < 500

\* put.status_code in (200, 201)
PutSucceeded(status) == status \in {200, 201}

\* (mutant) >= instead of >.
SizeExceeds_orEqual(size) == size >= SizeLimit

\* size > 100 * 1024 * 1024
SizeExceeds(size) == size > SizeLimit

InitPush(modes, sizes) ==
  /\ prog = "push"
  /\ mode \in modes
  /\ local \in [size : sizes, content : Contents]
  /\ run = 1 /\ exits = <<>> /\ requests = <<>> /\ faulted = FALSE
  /\ ExportIdle
  /\ pc = "main" /\ exit_code = -1 /\ cause = "none"

InitCommit ==
  /\ InitPush(Modes, Sizes)
  /\ \/ tree = {} /\ next_sha = 1
     \/ tree = {[path |-> "dest", content |-> "c0", sha |-> 1]} /\ next_sha = 2
  /\ others = 0 /\ get_status = 0 /\ sha = 0 /\ probed = {} /\ payload = <<>>
  /\ put_status = 0
  /\ ReleaseIdle

\* main(): required settings, then the dispatch on the upload mode.
PushMain ==
  /\ prog = "push" /\ pc = "main"
  /\ \/ Exit(PushExitCode("missing_env"), "missing_env")
     \/ /\ Lower(mode) = "contents"
        /\ pc' = "c_size" /\ UNCHANGED << exit_code, cause >>
     \/ /\ Lower(mode) = "release"
        /\ pc' = "r_lookup" /\ UNCHANGED << exit_code, cause >>
     \/ /\ Lower(mode) \notin {"contents", "release"}
        /\ Exit(PushExitCode("bad_mode"), "bad_mode")
  /\ UNCHANGED << xvars, pvars, cvars, rvars >>

\* size = ...st_size; if size > 100 MiB: exit 2; read and encode the file
CommitSizeCheck ==
  /\ prog = "push" /\ pc = "c_size"
  /\ IF SizeExceeds(local.size)
     THEN Exit(PushExitCode("oversize"), "oversize")
     ELSE pc' = "c_probe" /\ UNCHANGED << exit_code, cause >>
  /\ UNCHANGED << xvars, pvars, cvars, rvars >>

\* get = github_api(".../contents/{dest_path}?ref={branch}"); sha = ...
CommitProbe ==
  /\ prog = "push" /\ pc = "c_probe"
  /\ requests' = Append(requests, "GET contents")
  /\ \/ /\ get_status' = RemoteGetContents.status
        /\ sha' = ProbedSha(RemoteGetContents.status, RemoteGetContents.sha)
        /\ UNCHANGED faulted
     \/ \E st \in FaultStatuses :
          /\ get_status' = st
          /\ sha' = ProbedSha(st, 0)
          /\ faulted' = TRUE
  /\ probed' = tree
  /\ pc' = "c_submit"
  /\ UNCHANGED << xvars, mode, local, run, exits, tree, next_sha, others,
                  payload, put_status, rvars, exit_code, cause >>

\* payload = ...; put = github_api(..., method="PUT", json=payload);
\* a status other than 200 / 201 is exit 3, else the success line and return.
CommitSubmit ==
  /\ prog = "push" /\ pc = "c_submit"
  /\ payload' = BuildPayload(sha)
  /\ requests' = Append(requests, "PUT contents")
  /\ \/ /\ put_status' = RemotePutContents(payload').status
        /\ tree' = RemotePutContents(payload').tree
        /\ next_sha' = IF tree' = tree THEN next_sha ELSE next_sha + 1
        /\ UNCHANGED faulted
     \/ \E st \in FaultStatuses :
          /\ put_status' = st
          /\ faulted' = TRUE
          /\ UNCHANGED << tree, next_sha >>
  /\ IF PutSucceeded(put_status') THEN Exit(PushExitCode("ok"), "ok")
     ELSE Exit(PushExitCode("put"), "put")
  /\ UNCHANGED << xvars, mode, local, run, exits, others, get_status, sha,
                  probed, rvars >>

\* Another writer commits its own content to the same (repo, branch, path).
OtherWriter ==
  /\ prog = "push" /\ Lower(mode) = "contents"
  /\ pc \in {"c_size", "c_probe", "c_submit"}
  /\ others < MaxOthers
  /\ tree' = {[path |-> "dest", content |-> "theirs", sha |-> next_sha]}
  /\ next_sha' = next_sha + 1
  /\ others' = others + 1
  /\ UNCHANGED << xvars, pvars, get_status, sha, probed, payload, put_status,
                  rvars, pc, exit_code, cause >>

\* The program is run again (same settings; the local file may be another).
CommitAgain ==
  /\ prog = "push" /\ Lower(mode) = "contents" /\ pc = "exited"
  /\ run < MaxRuns
  /\ exits' = Append(exits, RunRecord)
  /\ run' = run + 1
  /\ local' \in [size : Sizes, content : Contents]
  /\ requests' = <<>> /\ faulted' = FALSE /\ others' = 0
  /\ get_status' = 0 /\ sha' = 0 /\ probed' = {} /\ payload' = <<>>
  /\ put_status' = 0
  /\ pc' = "main" /\ exit_code' = -1 /\ cause' = "none"
  /\ UNCHANGED << xvars, mode, tree, next_sha, rvars >>

NextCommit ==
  \/ PushMain \/ CommitSizeCheck \/ CommitProbe \/ CommitSubmit
  \/ OtherWriter \/ CommitAgain

SpecCommit == InitCommit /\ [][NextCommit]_vars

\* ------------------------------------------------ CommitStrategy properties
\* This invocation reached the remote and nothing but it touched the target:
\* no failure of the remote's own, no other writer.
CleanRun == requests # <<>> /\ ~faulted /\ others = 0

CleanRecord(r) == r.nreq > 0 /\ ~r.faulted /\ r.others = 0

\* C5: publishing the same content twice at the same path and branch, with no
\* other writer, ends both runs in success and leaves exactly one file at the
\* path, holding that content.
C5_CommitIdempotent ==
  (/\ prog = "push" /\ Lower(mode) = "contents" /\ run >= 2 /\ pc = "exited"
   /\ CleanRun /\ CleanRecord(exits[run - 1])
   /\ exits[run - 1].local.content = local.content) =>
    /\ exits[run - 1].code = 0
    /\ exit_code = 0
    /\ Cardinality(tree) = 1
    /\ \A e \in tree : e.path = "dest" /\ e.content = local.content

\* The second of two clean runs with the same content, on a path that held no
\* file before the first.
C5_Witness ==
  /\ Lower(mode) = "contents" /\ run = 2 /\ pc = "exited" /\ exit_code = 0
  /\ CleanRun /\ CleanRecord(exits[1]) /\ exits[1].code = 0
  /\ exits[1].local.content = local.content
  /\ next_sha = 3 /\ put_status = 200

\* C6: the update request carries the marker exactly when the probe answered
\* with an existing file, and then it is the marker that probe returned; when
\* the remote answers from its state and nobody wrote in between, a request
\* without marker is answered "created" (201) and one with marker "updated"
\* (200).
C6_MarkerIffFound ==
  /\ [](put_status # 0 =>
          /\ ("sha" \in DOMAIN payload <=> get_status = 200)
          /\ (get_status = 200 =>
                /\ probed # {}
                /\ payload.sha = (CHOOSE e \in probed : TRUE).sha)
          /\ (~faulted => (get_status = 200 <=> probed # {})))
  /\ [][(pc = "c_submit" /\ pc' = "exited" /\ ~faulted' /\ tree = probed) =>
          /\ ("sha" \in DOMAIN payload' <=> probed # {})
          /\ put_status' = (IF probed = {} THEN 201 ELSE 200)]_vars

\* First run created the file (no marker), the second, with other content,
\* carried the marker and updated it.
C6_Witness ==
  /\ Lower(mode) = "contents" /\ run = 2 /\ pc = "exited"
  /\ CleanRun /\ CleanRecord(exits[1]) /\ exits[1].code = 0
  /\ exits[1].local.content # local.content
  /\ next_sha = 3 /\ put_status = 200 /\ "sha" \in DOMAIN payload
  /\ payload.sha = 1

\* C7: when another writer created or updated the file between the probe and
\* the submit, the submit is rejected, the run exits 3 after that single PUT,
\* and the other writer's file is left as it was.
C7_StaleMarkerRejected ==
  [][(pc = "c_submit" /\ pc' = "exited" /\ tree # probed) =>
       /\ put_status' \notin {200, 201}
       /\ exit_code' = 3
       /\ tree' = tree
       /\ requests' = <<"GET contents", "PUT contents">>]_vars

\* A run whose probe saw a file that another writer then replaced.
C7_Witness ==
  /\ pc = "exited" /\ exit_code = 3 /\ put_status = 409 /\ others = 1
  /\ probed # {} /\ tree # probed
  /\ \A e \in tree : e.content = "theirs"

\* C8: a file larger than 100 MiB makes the size check exit 2 with no request
\* issued; a file of at most 100 MiB passes it; exit code 2 comes from this
\* check only.
C8_SizeBound ==
  /\ [][(pc = "c_size" /\ pc' # "c_size") =>
          IF local.size > 100 * 1024 * 1024
          THEN pc' = "exited" /\ exit_code' = 2 /\ requests' = <<>>
          ELSE pc' = "c_probe" /\ exit_code' = -1]_vars
  /\ [](exit_code = 2 => local.size > 100 * 1024 * 1024 /\ requests = <<>>)
  /\ [](requests # <<>> => local.size <= 100 * 1024 * 1024)

\* A file of exactly 100 MiB was committed, then one a byte larger refused.
C8_Witness ==
  /\ run = 2 /\ pc = "exited" /\ exit_code = 2 /\ requests = <<>>
  /\ local.size = 100 * 1024 * 1024 + 1
  /\ exits[1].local.size = 100 * 1024 * 1024 /\ exits[1].code = 0

\* ========================================================= ReleaseStrategy
Tags == {"t1", "t2"}

\* Release mode has no size check; the files sent this way are the large ones.
ReleaseSizes == {SizeLimit + 1}

AssetNames == {"a.gz", "b.gz"}

\* ---- the remote's release endpoints
\* The release object the remote returns for r.  Whether it carries a
\* "repository" member is the remote's choice (has_repo); the release object
\* of the REST API the program addresses by default has none.
ReleaseJson(r) ==
  IF has_repo
  THEN [id |-> r.id, tag_name |-> r.tag_name, repository |-> "owner/repo"]
  ELSE [id |-> r.id, tag_name |-> r.tag_name]

\* GET repos/{repo}/releases/tags/{tag}
RemoteGetRelease(t) ==
  IF \E r \in releases : r.tag_name = t
  THEN [status |-> 200,
        json |-> ReleaseJson(CHOOSE r \in releases : r.tag_name = t)]
  ELSE [status |-> 404, json |-> <<>>]

\* POST repos/{repo}/releases: one release per tag, a second is refused.
RemoteCreateRelease(t) ==
  IF \E r \in releases : r.tag_name = t
  THEN [status |-> 422, json |-> <<>>, releases |-> releases]
  ELSE [status |-> 201,
        json |-> ReleaseJson([id |-> next_id, tag_name |-> t]),
        releases |-> releases \cup {[id |-> next_id, tag_name |-> t]}]

\* GET <assets_url>
RemoteListAssets(rid) == { a \in assets : a.release = rid }

\* POST <upload_url>?name=...: one attachment per name and release, a second
\* is refused.
RemoteUploadAsset(rid, n, c) ==
  IF \E a \in assets : a.release = rid /\ a.name = n
  THEN [status |-> 422, assets |-> assets]
  ELSE [status |-> 201,
        assets |-> assets \cup
                     {[id |-> next_id, release |-> rid, name |-> n,
                       content |-> c]}]

\* ---- the program
\* (mutant) a release is created whatever the lookup answered.
LookupFound_never(status) == FALSE

\* if get.status_code == 200: return get.json()
LookupFound(status) == status = 200

\* create.status_code in (201,)
CreateSucceeded(status) == status = 201

\* (mutant) the same-named attachment is never looked for.
FindAsset_none(status, listed, n) == <<>>

\* if assets.status_code == 200: for a in assets.json(): if a.get("name") ==
\* asset_name: ... break          (<<>> when there is none)
FindAsset(status, listed, n) ==
  IF status = 200 /\ \E a \in listed : a.name = n
  THEN CHOOSE a \in listed : a.name = n
  ELSE <<>>

\* r.status_code in (201,)
UploadSucceeded(status) == status = 201

InitRelease ==
  /\ InitPush({"release"}, ReleaseSizes)
  /\ releases = {} /\ assets = {} /\ next_id = 1
  /\ has_repo \in BOOLEAN
  /\ tag \in Tags /\ asset_name \in AssetNames
  /\ rel = <<>> /\ listing = <<>> /\ found = <<>> /\ lookup_status = 0
  /\ CommitIdle

\* get = github_api(".../releases/tags/{tag}"); 200 returns the release
RelLookup ==
  /\ prog = "push" /\ pc = "r_lookup"
  /\ requests' = Append(requests, "GET release")
  /\ \E resp \in {RemoteGetRelease(tag)}
                   \cup {[status |-> st, json |-> <<>>] : st \in FaultStatuses} :
       /\ faulted' = (faulted \/ resp.status \in FaultStatuses)
       /\ lookup_status' = resp.status
       /\ IF LookupFound(resp.status)
          THEN rel' = resp.json /\ pc' = "r_list"
          ELSE UNCHANGED rel /\ pc' = "r_create"
  /\ UNCHANGED << xvars, mode, local, run, exits, cvars, releases, assets,
                  next_id, has_repo, tag, asset_name, listing, found,
                  exit_code, cause >>

\* create = github_api(".../releases", method="POST", json=payload);
\* a status other than 201 is exit 4
RelCreate ==
  /\ prog = "push" /\ pc = "r_create"
  /\ requests' = Append(requests, "POST release")
  /\ \E resp \in {RemoteCreateRelease(tag)}
                   \cup {[status |-> st, json |-> <<>>, releases |-> releases] :
                           st \in FaultStatuses} :
       /\ faulted' = (faulted \/ resp.status \in FaultStatuses)
       /\ releases' = resp.releases
       /\ next_id' = IF resp.releases = releases THEN next_id ELSE next_id + 1
       /\ IF CreateSucceeded(resp.status)
          THEN rel' = resp.json /\ pc' = "r_list" /\ UNCHANGED << exit_code, cause >>
          ELSE UNCHANGED rel /\ Exit(PushExitCode("create"), "create")
  /\ UNCHANGED << xvars, mode, local, run, exits, cvars, assets, has_repo, tag,
                  asset_name, listing, found, lookup_status >>

\* data = f.read(); assets = github_api(release["assets_url"]...); the loop
\* that looks for an attachment named asset_name
RelList ==
  /\ prog = "push" /\ pc = "r_list"
  /\ requests' = Append(requests, "GET assets")
  /\ \E resp \in {[status |-> 200, json |-> RemoteListAssets(rel.id)]}
                   \cup {[status |-> st, json |-> {}] : st \in FaultStatuses} :
       /\ faulted' = (faulted \/ resp.status \in FaultStatuses)
       /\ listing' = resp.json
       /\ found' = FindAsset(resp.status, resp.json, asset_name)
       /\ pc' = IF found' # <<>> THEN "r_delete" ELSE "r_upload"
  /\ UNCHANGED << xvars, mode, local, run, exits, cvars, releases, assets,
                  next_id, has_repo, tag, asset_name, rel, lookup_status,
                  exit_code, cause >>

\* delr = github_api(f"repos/{release['repository']['full_name']}/releases/
\* assets/{a['id']}", method="DELETE"); break.  release['repository'] raises
\* KeyError on a release object without that member; delr is not looked at.
RelDelete ==
  /\ prog = "push" /\ pc = "r_delete"
  /\ IF "repository" \notin DOMAIN rel
     THEN /\ Exit(PushExitCode("exception"), "exception")
          /\ UNCHANGED << requests, faulted, assets >>
     ELSE /\ requests' = Append(requests, "DELETE asset")
          /\ \/ assets' = assets \ {found} /\ UNCHANGED faulted
             \/ faulted' = TRUE /\ UNCHANGED assets
          /\ pc' = "r_upload" /\ UNCHANGED << exit_code, cause >>
  /\ UNCHANGED << xvars, mode, local, run, exits, cvars, releases, next_id,
                  has_repo, tag, asset_name, rel, listing, found,
                  lookup_status >>

\* r = requests.post(upload_url, params=params, data=data, headers=headers);
\* a status other than 201 is exit 5, else the success line and return
RelUpload ==
  /\ prog = "push" /\ pc = "r_upload"
  /\ requests' = Append(requests, "POST asset")
  /\ \E resp \in {RemoteUploadAsset(rel.id, asset_name, local.content)}
                   \cup {[status |-> st, assets |-> assets] :
                           st \in FaultStatuses} :
       /\ faulted' = (faulted \/ resp.status \in FaultStatuses)
       /\ assets' = resp.assets
       /\ next_id' = IF resp.assets = assets THEN next_id ELSE next_id + 1
       /\ IF UploadSucceeded(resp.status) THEN Exit(PushExitCode("ok"), "ok")
          ELSE Exit(PushExitCode("upload"), "upload")
  /\ UNCHANGED << xvars, mode, local, run, exits, cvars, releases, has_repo,
                  tag, asset_name, rel, listing, found, lookup_status >>

\* The program is run again, for the same or another tag and asset name.
ReleaseAgain ==
  /\ prog = "push" /\ Lower(mode) = "release" /\ pc = "exited"
  /\ run < MaxRuns
  /\ exits' = Append(exits, RunRecord)
  /\ run' = run + 1
  /\ local' \in [size : ReleaseSizes, content : Contents]
  /\ tag' \in Tags /\ asset_name' \in AssetNames
  /\ requests' = <<>> /\ faulted' = FALSE
  /\ rel' = <<>> /\ listing' = <<>> /\ found' = <<>> /\ lookup_status' = 0
  /\ pc' = "main" /\ exit_code' = -1 /\ cause' = "none"
  /\ UNCHANGED << xvars, mode, cvars, releases, assets, next_id, has_repo >>

NextRelease ==
  \/ PushMain \/ RelLookup \/ RelCreate \/ RelList \/ RelDelete \/ RelUpload
  \/ ReleaseAgain

SpecRelease == InitRelease /\ [][NextRelease]_vars

\* ----------------------------------------------- ReleaseStrategy properties
ReleasesOf(t) == { r \in releases : r.tag_name = t }

\* The attachments named n on the releases of tag t.
AssetsOf(t, n) ==
  { a \in assets : a.name = n /\ \E r \in ReleasesOf(t) : a.release = r.id }

\* C9: no release ever holds two attachments of one name; and the second of
\* two publications with the same tag and asset name (the remote answering
\* from its state both times, the first having succeeded) succeeds and leaves
\* one release for the tag with one attachment of that name, holding the
\* content just published: the old attachment is replaced.
C9_ReleaseReplace ==
  /\ \A t \in Tags : \A n \in AssetNames : Cardinality(AssetsOf(t, n)) <= 1
  /\ (/\ prog = "push" /\ Lower(mode) = "release" /\ run >= 2 /\ pc = "exited"
      /\ requests # <<>> /\ ~faulted
      /\ exits[run - 1].code = 0 /\ ~exits[run - 1].faulted
      /\ exits[run - 1].tag = tag
      /\ exits[run - 1].asset_name = asset_name) =>
       /\ exit_code = 0
       /\ Cardinality(ReleasesOf(tag)) = 1
       /\ Cardinality(AssetsOf(tag, asset_name)) = 1
       /\ \A a \in AssetsOf(tag, asset_name) : a.content = local.content

\* C10: a run against a tag that already has a release reuses it and sends no
\* create request (it is at the create step only when the tag has none), so
\* every tag has at most one release and the run works on the tag's one.
C10_ReleaseReused ==
  /\ (pc = "r_create" => ReleasesOf(tag) = {})
  /\ \A t \in Tags : Cardinality(ReleasesOf(t)) <= 1
  /\ (pc \in {"r_list", "r_delete", "r_upload"} =>
        /\ Cardinality(ReleasesOf(tag)) = 1
        /\ \A r \in ReleasesOf(tag) : rel.id = r.id)

\* ------------------------------------------------ both delivery strategies
\* main() of the publisher under either upload mode.
InitPublish == InitCommit \/ InitRelease

NextPublish ==
  \/ PushMain \/ CommitSizeCheck \/ CommitProbe \/ CommitSubmit
  \/ OtherWriter \/ CommitAgain
  \/ RelLookup \/ RelCreate \/ RelList \/ RelDelete \/ RelUpload
  \/ ReleaseAgain

SpecPublish == InitPublish /\ [][NextPublish]_vars

\* C11: once a request of the run has been answered with a failure status
\* (403, 500) the run has ended with a non-zero exit: it is at no later step
\* and does not end in success.
C11_NoFailureSwallowed ==
  (prog = "push" /\ faulted) => (pc = "exited" /\ exit_code > 0)

\* ------------------------------------------------------------ all programs
\* Any one of the three programs is started.
Init == InitExport \/ InitPublish

Next ==
  \/ CsvPreflight \/ CsvExecute \/ CsvOpenSink \/ CsvFetch \/ CsvWrite
  \/ CsvFinalize \/ CsvReport \/ CsvFinally
  \/ PqPreflight \/ PqExecute \/ PqFetch \/ PqWrite \/ PqFinalize \/ PqReport
  \/ PqFinally
  \/ PushMain \/ CommitSizeCheck \/ CommitProbe \/ CommitSubmit
  \/ OtherWriter \/ CommitAgain
  \/ RelLookup \/ RelCreate \/ RelList \/ RelDelete \/ RelUpload
  \/ ReleaseAgain

Spec == Init /\ [][Next]_vars

\* The failure conditions whose exit codes are to tell them apart.
DiagnosedCauses ==
  {"missing_env", "sql_missing", "sql_empty", "oversize", "create", "upload"}

\* The diagnosed condition a cause belongs to: a missing and an empty SQL file
\* are one condition (query source), each other cause is its own.
ConditionOf(why) ==
  IF why \in {"sql_missing", "sql_empty"} THEN "query_source" ELSE why

\* The causes a program can end with, and the exit code it gives each.
CausesOf(p) ==
  IF p = "push" THEN {"missing_env", "oversize", "create", "upload"}
  ELSE {"missing_env", "sql_missing", "sql_empty"}

ExitCodeOf(p, why) ==
  IF p = "push" THEN PushExitCode(why) ELSE ExportExitCode(why)

\* C12: a process that ended for one of the diagnosed conditions has a
\* non-zero exit code that the same program gives to no other diagnosed
\* condition; and a lookup answered with a failure status ends the run with a
\* non-zero exit code that is neither the create nor the upload code.
C12_DistinctExitCodes ==
  /\ (pc = "exited" /\ cause \in DiagnosedCauses) =>
       /\ exit_code > 0
       /\ \A w \in CausesOf(prog) :
            ConditionOf(w) # ConditionOf(cause) =>
              ExitCodeOf(prog, w) # exit_code
  /\ (prog = "push" /\ lookup_status \in FaultStatuses /\ pc # "r_lookup") =>
       /\ pc = "exited" /\ exit_code > 0
       /\ exit_code \notin {PushExitCode("create"), PushExitCode("upload")}

\* ------------------------------------------- ReleaseStrategy, lookup/create
\* The run has sent a request of kind r.
Sent(r) == \E i \in DOMAIN requests : requests[i] = r

\* C13: the run is at the create step, or has sent the create request, only
\* after a lookup answered 404; after a lookup answered 200 it holds the
\* release and has sent no create request.
C13_CreateOnlyOn404 ==
  /\ (prog = "push" /\ (pc = "r_create" \/ Sent("POST release"))) =>
       lookup_status = 404
  /\ (prog = "push" /\ lookup_status = 200) =>
       /\ ~Sent("POST release") /\ pc # "r_create"
       /\ rel # <<>> /\ rel.tag_name = tag

\* ------------------------------------------- exporters, resources and abort
\* C14: an exporter that has left main() through the finally block (the only
\* way out once the connection is open: normal completion, empty result or an
\* exception at any step) has its cursor and its connection closed and holds
\* no open output file or writer.
C14_ResourcesReleased ==
  (prog \in {"csv", "parquet"} /\ pc = "exited" /\ cause \in {"ok", "exception"}) =>
    /\ ~cur_open /\ ~conn_open
    /\ out.state # "open"

\* C15: after a fetch error that follows at least one written batch the
\* exporter is on its way out (no further fetch), prints no success line,
\* exits with a failure status, and the output path does not hold a closed
\* (finalized) file with fewer rows than the result set.
C15_NoPartialArtifact ==
  (prog \in {"csv", "parquet"} /\ exc = "DatabaseError" /\ batches # <<>>) =>
    /\ pc \in {"finally", "exited"}
    /\ printed = "none"
    /\ (pc = "exited" => exit_code > 0)
    /\ ~(out.state = "closed" /\ Len(SinkRows) < Len(src))

\* C16: an exporter that is about to print its success line, has printed it,
\* or has exited with status 0 has its output file closed (finalized); and it
\* exits with status 0 only after the success line.
C16_FinalizedBeforeSuccess ==
  (prog \in {"csv", "parquet"}) =>
    /\ (pc = "report" \/ printed # "none" \/ (pc = "exited" /\ exit_code = 0)) =>
         out.state = "closed"
    /\ (pc = "exited" /\ exit_code = 0) => printed # "none"

C16_Witness ==
  /\ prog = "parquet" /\ pc = "exited" /\ exit_code = 0 /\ printed = "ok"
  /\ Len(batches) = 2 /\ out.state = "closed"

\* ------------------------------------------------ columnar exporter, schema
\* A stored cell x agrees with the arrow type t of its column.
CellFits(x, t) ==
  \/ x.ty = "null"
  \/ t = "int64" /\ x.ty = "int"
  \/ t = "double" /\ x.ty = "float"
  \/ t = "string" /\ x.ty = "str"

\* C17: the writer is unopened until a batch has been fetched; once a batch is
\* appended the writer and the file have the schema derived from the first
\* batch; every appended batch has that very schema and every stored cell the
\* type of its column (nothing is appended under another type); a batch whose
\* schema differs ends the run with the ValueError: it is not appended, no
\* success line is printed and the exit status is a failure.
C17_SchemaConsistent ==
  (prog = "parquet") =>
    /\ (pos = 0 => writer.is_none)
    /\ (batches # <<>> =>
          /\ ~writer.is_none
          /\ writer.schema = TableFromRows(batches[1], cols).schema
          /\ out.schema = writer.schema)
    /\ \A i \in DOMAIN batches :
          TableFromRows(batches[i], cols).schema = writer.schema
    /\ \A i \in DOMAIN out.data : \A j \in DOMAIN out.data[i] :
          CellFits(out.data[i][j], out.schema[j][2])
    /\ (pc = "fetch" /\ batches # <<>> => Len(SinkRows) = SumLen(batches))
    /\ ((exc = "ValueError" /\ batches # <<>>) =>
          /\ pc \in {"finally", "exited"}
          /\ TableFromRows(rows, cols).schema # writer.schema
          /\ Len(SinkRows) = SumLen(batches)
          /\ printed = "none"
          /\ (pc = "exited" => exit_code > 0))

C17_Witness ==
  /\ prog = "parquet" /\ pc = "exited" /\ exc = "ValueError"
  /\ Len(batches) = 1 /\ Len(SinkRows) < Len(src)

\* --------------------------------------- both strategies, no retry/rollback
\* How many requests of kind r the run has sent.
Count(r) == Cardinality({ i \in DOMAIN requests : requests[i] = r })

MutatingRequests ==
  {"PUT contents", "POST release", "DELETE asset", "POST asset"}

\* C18: a run sends each mutating request at most once; a run ended by a
\* refused PUT, create or upload ended right after that request (it is the
\* last one sent); an ended run sends nothing more and the remote stays as the
\* run left it: a release created before a refused upload is still there.
C18_NoRetryNoRollback ==
  /\ [](prog = "push" =>
          /\ \A r \in MutatingRequests : Count(r) <= 1
          /\ (pc = "exited" /\ cause = "put") =>
                requests[Len(requests)] = "PUT contents"
          /\ (pc = "exited" /\ cause = "create") =>
                requests[Len(requests)] = "POST release"
          /\ (pc = "exited" /\ cause = "upload") =>
                requests[Len(requests)] = "POST asset"
          /\ (pc = "exited" /\ cause \in {"put", "create", "upload"}) =>
                exit_code > 0)
  /\ [][(prog = "push" /\ pc = "exited") =>
          /\ tree' = tree /\ releases' = releases /\ assets' = assets
          /\ (run' = run => requests' = requests)]_vars

C18_Witness ==
  /\ prog = "push" /\ pc = "exited" /\ cause = "upload" /\ exit_code = 5
  /\ Sent("POST release") /\ lookup_status = 404
  /\ ReleasesOf(tag) # {} /\ AssetsOf(tag, asset_name) = {}

\* ---------------------------------------------- columnar exporter, fallback
\* C19: when the loop has been left the writer is unopened exactly if total
\* is 0; the step after the loop writes the empty file (a closed file of zero
\* rows, written without the writer) exactly if no batch was written, and
\* leaves the rows of a file that holds data as they are.
C19_FallbackIffNoBatch ==
  /\ []((prog = "parquet" /\ pc = "finalize") =>
          /\ (writer.is_none <=> total = 0)
          /\ (total = 0 <=> batches = <<>>))
  /\ [][(prog = "parquet" /\ pc = "finalize") =>
          /\ (batches = <<>>) <=>
               (writer.is_none /\ out'.state = "closed" /\ out'.data = <<>>)
          /\ (out.data # <<>> => out'.data = out.data)]_vars

\* --------------------------------------- ReleaseStrategy, delete then upload
\* The attachments named n on the release with id rid.
NamedOn(rid, n) == { a \in assets : a.release = rid /\ a.name = n }

\* C20: in a run, the DELETE of the same-named attachment comes before the
\* upload POST; an upload is sent for a name the listing showed only after
\* the DELETE was sent; a run that deleted the attachment it found and whose
\* upload was refused has ended in failure with no attachment of that name on
\* the release; no release ever holds two attachments of one name.
C20_DeleteThenUpload ==
  (prog = "push") =>
    /\ \A i, j \in DOMAIN requests :
         (requests[i] = "DELETE asset" /\ requests[j] = "POST asset") => i < j
    /\ (Sent("POST asset") /\ \E a \in listing : a.name = asset_name) =>
         Sent("DELETE asset")
    /\ (cause = "upload" /\ Sent("DELETE asset") /\ found \notin assets) =>
         /\ pc = "exited" /\ exit_code > 0
         /\ NamedOn(rel.id, asset_name) = {}
    /\ \A r \in releases : \A n \in AssetNames :
         Cardinality(NamedOn(r.id, n)) <= 1

C20_Witness ==
  /\ prog = "push" /\ pc = "exited" /\ cause = "upload" /\ exit_code = 5
  /\ found # <<>> /\ Sent("DELETE asset") /\ found \notin assets
  /\ requests[Len(requests)] = "POST asset"
  /\ NamedOn(rel.id, asset_name) = {}

====
